---- MODULE Spec2Model ----
(***************************************************************************)
(* Session authentication and token revocation of the dlpl-api backend:    *)
(* AuthHandler (src/src/authentication/main.py), the routes of             *)
(* src/src/routes/users.py and the role wrappers of src/src/utils.py,      *)
(* followed by the classes and enrollments routes (routes/turma.py,        *)
(* routes/enrollment.py).                                                  *)
(*                                                                         *)
(* The clock counts ticks of 1/Hz second; lifetimes are given in seconds   *)
(* and int(...total_seconds()) truncates a duration to whole seconds.      *)
(* A signed token is a record [form, sig, claims]; jwt.decode is modelled  *)
(* by what it checks (structure, signature, exp), not as an identity.      *)
(* Every handler outcome is a record [kind, status, detail, payload] with  *)
(* kind "ok" (a value is returned), "http" (an HTTPException is raised) or *)
(* "fault" (any other exception is raised).                                *)
(*                                                                         *)
(* The server answers one request at a time: a request is taken when the   *)
(* server is idle, "last" holds it with its response until the middleware  *)
(* returns the response, and the guard of a protected route runs as a step *)
(* of its own before the route's body.                                     *)
(*                                                                         *)
(* src/src/routes/a.py is a fragment without imports or a router object    *)
(* and is not included by src/src/__init__.py; the logout route served by  *)
(* the application is the one of routes/users.py, which is modelled here.  *)
(***************************************************************************)
EXTENDS Integers, Sequences, FiniteSets, TLC

\* Bounds of the model.
MaxTokens == 4        \* tokens ever issued (each login issues two, each refresh one)
MaxTicks == 1         \* times the clock is seen to advance
MaxTampered == 2      \* token ids of which a tampered copy is presented
Hz == 2               \* clock ticks per second
MaxWorkers == 2       \* server processes answering create_turma at the same time
MaxTurmas == 3        \* documents ever inserted into the turma collection
MaxEnrollments == 2   \* documents ever inserted into the enrollment collection

\* Program constants.
AccessMinutes == 60   \* encode_token: timedelta(minutes=60)
RefreshHours == 720   \* encode_token: timedelta(hours=720)

VARIABLES
    now,        \* the clock, in ticks
    users,      \* the users collection: _id -> [name, admin, is_active]
    nextId,     \* number of token ids minted so far (uuid4 never repeats)
    issued,     \* every token ever signed with the secret
    iat,        \* history: token id -> the instant it was issued
    store,      \* Redis: key -> [value, expire_at]
    loggedOut,  \* history: session tokens whose logout answered 200
    last,       \* history: the last request and its response
    ticks,      \* history: times the clock has advanced
    turmas,     \* the turma collection, in insertion order
    enrollments,\* the enrollment collection, in insertion order
    creating,   \* create_turma calls between their find_one and insert_one
    reply       \* history: the last response of a turma or enrollment route

\* The collections of the classes and enrollments routes.
school == <<turmas, enrollments, creating, reply>>

vars == <<now, users, nextId, issued, iat, store, loggedOut, last, ticks, school>>

(***************************************************************************)
(* Values                                                                  *)
(***************************************************************************)
\* The _id of the default admin, an ObjectId string, as a character sequence.
AdminId == <<"a">>
UserIds == {AdminId}

\* The names a request can carry: the admin, a user the admin may register,
\* and a name nobody has.
Names == {"admin", "bob", "eve"}

NoClaims == [none |-> TRUE]
NoToken == [form |-> "none", sig |-> "none", claims |-> NoClaims]
Garbage == [form |-> "garbage", sig |-> "none", claims |-> NoClaims]

\* A copy of a signed token with a byte of its signature flipped.
Tamper(t) == [t EXCEPT !.sig = "bad"]

\* What a client can present: nothing, a malformed string, any token the
\* server signed, or a tampered copy of one.
Presentable ==
    {NoToken, Garbage} \cup issued
        \cup {Tamper(t) : t \in {i \in issued : i.claims.id <= MaxTampered}}

StartsWith(s, p) == Len(s) >= Len(p) /\ SubSeq(s, 1, Len(p)) = p

\* str(True) / str(False) inside an f-string
PyStr(b) == IF b THEN <<"True">> ELSE <<"False">>

\* No create_turma call in progress in a server process; no response yet.
NoCall == [name |-> "", semester |-> ""]
NoReply == [op |-> "none", status |-> 0, detail |-> ""]

\* The turma and enrollment collections are empty before the first request.
SchoolInit ==
    /\ turmas = <<>>
    /\ enrollments = <<>>
    /\ creating = [w \in 1..MaxWorkers |-> NoCall]
    /\ reply = NoReply

Ok(p) == [kind |-> "ok", status |-> 200, detail |-> "", payload |-> p]
Http(s, d) == [kind |-> "http", status |-> s, detail |-> d, payload |-> NoClaims]
Fault(d) == [kind |-> "fault", status |-> 500, detail |-> d, payload |-> NoClaims]

(***************************************************************************)
(* Claims codec                                                            *)
(***************************************************************************)
\* encode_token whose test of the type never succeeds, so that every token
\* gets the session lifetime and kind.
encode_token_ignores_type(user_data, type, id) ==
    [form |-> "jwt", sig |-> "ok",
     claims |-> [id |-> id,
                 admin |-> user_data.admin,
                 is_active |-> user_data.is_active,
                 sub |-> user_data.id,
                 name |-> user_data.name,
                 exp |-> now + RefreshHours * 3600 * Hz,
                 refresh |-> TRUE]]

\* encode_token reading the admin flag under a key user_data does not have,
\* so that the default of .get applies.
encode_token_admin_default(user_data, type, id) ==
    [form |-> "jwt", sig |-> "ok",
     claims |-> [id |-> id,
                 admin |-> FALSE,
                 is_active |-> user_data.is_active,
                 sub |-> user_data.id,
                 name |-> user_data.name,
                 exp |-> IF type = "access_token"
                         THEN now + AccessMinutes * 60 * Hz
                         ELSE now + RefreshHours * 3600 * Hz,
                 refresh |-> type # "access_token"]]

\* AuthHandler.encode_token: the claims signed for user_data at the current
\* instant, with a fresh id.
encode_token(user_data, type, id) ==
    [form |-> "jwt", sig |-> "ok",
     claims |-> [id |-> id,
                 admin |-> user_data.admin,
                 is_active |-> user_data.is_active,
                 sub |-> user_data.id,
                 name |-> user_data.name,
                 exp |-> IF type = "access_token"
                         THEN now + AccessMinutes * 60 * Hz
                         ELSE now + RefreshHours * 3600 * Hz,
                 refresh |-> type # "access_token"]]

\* jwt.decode validating exp before it verifies the signature.
jwt_decode_exp_first(token) ==
    IF token.form # "jwt" THEN Fault("InvalidTokenError")
    ELSE IF token.claims.exp <= now THEN Fault("ExpiredSignatureError")
    ELSE IF token.sig # "ok" THEN Fault("InvalidTokenError")
    ELSE Ok(token.claims)

\* jwt.decode with a token still accepted at the instant of its exp.
jwt_decode_inclusive(token) ==
    IF token.form # "jwt" \/ token.sig # "ok" THEN Fault("InvalidTokenError")
    ELSE IF token.claims.exp < now THEN Fault("ExpiredSignatureError")
    ELSE Ok(token.claims)

\* jwt.decode(token, secret, algorithms=['HS256']): structure and signature
\* first, then exp (expired when exp <= now).
jwt_decode(token) ==
    IF token.form # "jwt" \/ token.sig # "ok" THEN Fault("InvalidTokenError")
    ELSE IF token.claims.exp <= now THEN Fault("ExpiredSignatureError")
    ELSE Ok(token.claims)

\* The body shared by decode_access_token and decode_refresh_token; reject is
\* the value of the refresh claim the caller refuses.
decode_kind(token, reject) ==
    LET d == jwt_decode(token) IN
    IF d.kind = "ok" THEN
        IF "sub" \notin DOMAIN d.payload THEN Http(401, "Invalid token")
        ELSE IF "refresh" \notin DOMAIN d.payload THEN Fault("KeyError")
        ELSE IF d.payload.refresh = reject THEN Http(401, "Invalid token")
        ELSE d
    ELSE IF d.detail = "ExpiredSignatureError" THEN Http(401, "Signature has expired")
    ELSE Http(401, "Invalid token")

decode_access_token(token) == decode_kind(token, TRUE)

\* decode_refresh_token without its test of the refresh claim.
decode_refresh_token_any_kind(token) ==
    LET d == jwt_decode(token) IN
    IF d.kind = "ok" THEN d
    ELSE IF d.detail = "ExpiredSignatureError" THEN Http(401, "Signature has expired")
    ELSE Http(401, "Invalid token")

decode_refresh_token(token) == decode_kind(token, FALSE)

(***************************************************************************)
(* Revocation store (Redis)                                                *)
(***************************************************************************)
TokenKey(token_id) == <<"token:", token_id>>     \* f"token:{token_id}"
RawKey(token_id) == <<token_id>>                 \* token_id alone

\* redis.get: the value, or None (here <<>>) when the key is absent.
redis_get(key) == IF key \in DOMAIN store THEN store[key].value ELSE <<>>

\* redis.setex(key, ttl, value) on store s, ttl in whole seconds.
redis_setex(s, key, ttl, value) ==
    [k \in DOMAIN s \cup {key} |->
        IF k = key THEN [value |-> value, expire_at |-> now + ttl * Hz] ELSE s[k]]

\* redis.delete of a set of keys.
redis_delete(s, keys) == [k \in DOMAIN s \ keys |-> s[k]]

\* Keys whose TTL has not lapsed at instant t.
Live(s, t) == [k \in {j \in DOMAIN s : s[j].expire_at > t} |-> s[k]]

(***************************************************************************)
(* Token issuer                                                            *)
(***************************************************************************)
\* The sweep comparing the whole value with the id instead of its prefix.
SweepKeys_whole_value(user_data) ==
    {k \in DOMAIN store :
        /\ k[1] = "token:"
        /\ store[k].value # <<>>
        /\ store[k].value = user_data.id}

\* The sweep testing the value against the id without the ":" after it.
SweepKeys_no_colon(user_data) ==
    {k \in DOMAIN store :
        /\ k[1] = "token:"
        /\ store[k].value # <<>>
        /\ StartsWith(store[k].value, user_data.id)}

\* encode_login_token, the sweep: the keys matching token:* whose value
\* starts with "<id>:".
SweepKeys(user_data) ==
    {k \in DOMAIN store :
        /\ k[1] = "token:"
        /\ store[k].value # <<>>
        /\ StartsWith(store[k].value, user_data.id \o <<":">>)}

(***************************************************************************)
(* Session guard                                                           *)
(***************************************************************************)
\* verify_refresh_token looking the token id up without the "token:" prefix.
verify_refresh_token_raw_key(token, up) ==
    LET d == decode_refresh_token(token) IN
    IF d.kind # "ok" THEN d
    ELSE IF d.payload.id = 0 THEN Http(401, "Invalid token")
    ELSE IF ~up THEN Fault("RedisError")
    ELSE IF redis_get(RawKey(d.payload.id)) # <<>> THEN Http(401, "Token locked")
    ELSE Ok(NoClaims)

\* AuthHandler.verify_refresh_token; up tells whether Redis answers.
verify_refresh_token(token, up) ==
    LET d == decode_refresh_token(token) IN
    IF d.kind # "ok" THEN d
    ELSE IF d.payload.id = 0 THEN Http(401, "Invalid token")
    ELSE IF ~up THEN Fault("RedisError")
    ELSE IF redis_get(TokenKey(d.payload.id)) # <<>> THEN Http(401, "Token locked")
    ELSE Ok(NoClaims)

\* auth_user without the check of the session cookie.
auth_user_bearer_only(cookie, bearer, up) ==
    IF bearer = NoToken THEN Http(403, "Not authenticated")
    ELSE decode_access_token(bearer)

\* AuthHandler.auth_user with its HTTPBearer dependency, which is resolved
\* before the body runs and refuses a request without credentials.
auth_user(cookie, bearer, up) ==
    IF bearer = NoToken THEN Http(403, "Not authenticated")
    ELSE IF cookie = NoToken THEN Http(401, "Token not found")
    ELSE LET v == verify_refresh_token(cookie, up) IN
         IF v.kind # "ok" THEN v ELSE decode_access_token(bearer)

\* What the server answers when a dependency ends with outcome r.
Respond(r) == IF r.kind = "fault" THEN [r EXCEPT !.detail = "Internal Server Error"] ELSE r

(***************************************************************************)
(* Requests                                                                *)
(***************************************************************************)
\* The record kept of the request being answered: what it carried, whether
\* Redis answered it, and the response.
Request(op, cookie, bearer, up, r) ==
    [op |-> op, cookie |-> cookie, bearer |-> bearer, up |-> up,
     kind |-> r.kind, status |-> r.status, detail |-> r.detail,
     principal |-> NoClaims, token |-> NoToken, set_cookie |-> NoToken,
     cookie_op |-> "none", name |-> ""]

Idle == Request("idle", NoToken, NoToken, TRUE, Ok(NoClaims))

\* The state after POST /users/setup on an empty database
\* (create_default_admin), with Redis empty.
Init ==
    /\ now = 0
    /\ users = [u \in UserIds |-> [name |-> "admin", admin |-> TRUE, is_active |-> TRUE]]
    /\ nextId = 0
    /\ issued = {}
    /\ iat = <<>>
    /\ store = <<>>
    /\ loggedOut = {}
    /\ last = Idle
    /\ ticks = 0
    /\ SchoolInit

\* Time passes between requests, to the last tick at which a token is valid
\* or the first at which it has expired; Redis drops the keys whose TTL has lapsed.
Instants ==
    {t.claims.exp - 1 : t \in issued} \cup {t.claims.exp : t \in issued}

Tick ==
    \E t \in Instants :
        /\ last = Idle
        /\ ticks < MaxTicks
        /\ ticks' = ticks + 1
        /\ t > now
        /\ now' = t
        /\ store' = Live(store, t)
        /\ UNCHANGED <<users, nextId, issued, iat, loggedOut, last, school>>

\* The http middleware returns the response of the request being answered,
\* once there is one.
add_process_time_header ==
    /\ last # Idle
    /\ last.kind # "pending"
    /\ last' = Idle
    /\ UNCHANGED <<now, users, nextId, issued, iat, store, loggedOut, ticks, school>>

\* A protected route is requested: the guard runs as its dependency, before
\* the route's body. When it returns, its payload is the body's user_data.
AuthUser ==
    \E cookie \in Presentable, bearer \in Presentable, up \in BOOLEAN :
        LET r == Respond(auth_user(cookie, bearer, up)) IN
        /\ last = Idle
        /\ last' = [Request("guard", cookie, bearer, up, r) EXCEPT
                        !.principal = r.payload]
        /\ UNCHANGED <<now, users, nextId, issued, iat, store, loggedOut, ticks, school>>

\* The lookup of login_user without its is_active filter.
find_active_by_name_any(name) ==
    {u \in DOMAIN users : users[u].name = name}

\* db.users.find_one({'name': name, 'is_active': True})
find_active_by_name(name) ==
    {u \in DOMAIN users : users[u].name = name /\ users[u].is_active}

\* The lookup by _id without its is_active filter.
find_active_by_id_any(user_id) ==
    {u \in DOMAIN users : u = user_id}

\* db.users.find_one({'_id': ObjectId(user_id), 'is_active': True})
find_active_by_id(user_id) ==
    {u \in DOMAIN users : u = user_id /\ users[u].is_active}

\* db.users.find_one({'name': name})
find_by_name(name) == {u \in DOMAIN users : users[u].name = name}

\* The payload dict login_user and refresh_login_user build from a users
\* document.
UserData(u) ==
    [name |-> users[u].name, id |-> u, admin |-> users[u].admin,
     is_active |-> users[u].is_active]

\* encode_login_token with the two token types exchanged.
encode_login_token_swapped(user_data) ==
    <<encode_token(user_data, "refresh_token", nextId + 1),
      encode_token(user_data, "access_token", nextId + 2)>>

\* AuthHandler.encode_login_token after its sweep: the access token and the
\* refresh token, each with an id of its own.
encode_login_token(user_data) ==
    <<encode_token(user_data, "access_token", nextId + 1),
      encode_token(user_data, "refresh_token", nextId + 2)>>

\* POST /users/login. pwd_ok is the answer of bcrypt's checkpw. When Redis
\* fails during the sweep, the keys deleted before the failure stay deleted
\* and the exception reaches the route's except clause.
LoginUser ==
    \E name \in Names, pwd_ok \in BOOLEAN, up \in BOOLEAN :
        LET found == find_active_by_name(name)
            req(r) == [Request("login", NoToken, NoToken, up, r) EXCEPT !.name = name]
        IN
        /\ last = Idle
        /\ IF found = {} THEN
               /\ last' = req(Http(401, "User not found"))
               /\ UNCHANGED <<now, users, nextId, issued, iat, store, loggedOut, ticks, school>>
           ELSE IF ~pwd_ok THEN
               /\ last' = req(Http(401, "Username or password not valid"))
               /\ UNCHANGED <<now, users, nextId, issued, iat, store, loggedOut, ticks, school>>
           ELSE
               LET user_data == UserData(CHOOSE u \in found : TRUE)
                   pair == encode_login_token(user_data)
               IN
               IF ~up THEN
                   \E done \in SUBSET SweepKeys(user_data) :
                       /\ store' = redis_delete(store, done)
                       /\ last' = req(Http(500, "Internal server error"))
                       /\ UNCHANGED <<now, users, nextId, issued, iat, loggedOut, ticks, school>>
               ELSE
                   /\ nextId + 2 <= MaxTokens
                   /\ store' = redis_delete(store, SweepKeys(user_data))
                   /\ nextId' = nextId + 2
                   /\ issued' = issued \cup {pair[1], pair[2]}
                   /\ iat' = [i \in DOMAIN iat \cup {nextId + 1, nextId + 2} |->
                                 IF i \in DOMAIN iat THEN iat[i] ELSE now]
                   /\ last' = [req([Ok(NoClaims) EXCEPT !.status = 201]) EXCEPT
                                   !.token = pair[1], !.set_cookie = pair[2],
                                   !.cookie_op = "set"]
                   /\ UNCHANGED <<now, users, loggedOut, ticks, school>>

\* PATCH /users/login. An HTTPException raised by decode_refresh_token is
\* caught by the route's "except Exception" and answered as a 500.
RefreshLoginUser ==
    \E cookie \in Presentable, up \in BOOLEAN :
        LET d == decode_refresh_token(cookie)
            req(r) == Request("refresh", cookie, NoToken, up, r)
            keep == UNCHANGED <<now, users, nextId, issued, iat, store, loggedOut, ticks, school>>
        IN
        /\ last = Idle
        /\ IF cookie = NoToken THEN
               last' = req(Http(403, "Unauthorized")) /\ keep
           ELSE IF d.kind # "ok" THEN
               last' = req(Http(500, "Internal server error")) /\ keep
           ELSE IF d.payload.sub = <<>> \/ d.payload.id = 0 THEN
               last' = req(Http(403, "Unauthorized - bad request")) /\ keep
           ELSE IF ~up THEN
               last' = req(Http(500, "Internal server error")) /\ keep
           ELSE IF redis_get(RawKey(d.payload.id)) # <<>> THEN
               last' = req(Http(403, "Unauthorized - locked list")) /\ keep
           ELSE IF find_active_by_id(d.payload.sub) = {} THEN
               last' = req(Http(403, "Unauthorized - invalid user")) /\ keep
           ELSE
               LET u == CHOOSE v \in find_active_by_id(d.payload.sub) : TRUE
                   token == encode_token(UserData(u), "access_token", nextId + 1)
               IN
               /\ nextId + 1 <= MaxTokens
               /\ nextId' = nextId + 1
               /\ issued' = issued \cup {token}
               /\ iat' = [i \in DOMAIN iat \cup {nextId + 1} |->
                             IF i \in DOMAIN iat THEN iat[i] ELSE now]
               /\ last' = [req(Ok(NoClaims)) EXCEPT !.token = token]
               /\ UNCHANGED <<now, users, store, loggedOut, ticks, school>>

\* lock_refresh_token ignoring a failure of Redis.
lock_refresh_token_swallow(token, up) ==
    LET d == decode_refresh_token(token) IN
    IF d.kind # "ok" THEN [r |-> d, store |-> store]
    ELSE IF ~up THEN [r |-> Ok(d.payload.sub), store |-> store]
    ELSE [r |-> Ok(d.payload.sub),
          store |-> redis_setex(store, TokenKey(d.payload.id),
                                (d.payload.exp - now) \div Hz,
                                d.payload.sub \o <<":">> \o PyStr(d.payload.is_active))]

\* AuthHandler.lock_refresh_token: its outcome (the user id when it returns)
\* and the store it leaves; ttl is the remaining lifetime truncated to whole
\* seconds. Redis refuses a setex whose ttl is not positive.
lock_refresh_token(token, up) ==
    LET d == decode_refresh_token(token) IN
    IF d.kind # "ok" THEN [r |-> d, store |-> store]
    ELSE IF \/ d.payload.sub = <<>> \/ d.payload.id = 0
            \/ d.payload.exp = 0 \/ ~d.payload.is_active
    THEN [r |-> Http(401, "Invalid token"), store |-> store]
    ELSE
        LET ttl == (d.payload.exp - now) \div Hz IN
        IF ~up THEN [r |-> Fault("RedisError"), store |-> store]
        ELSE IF ttl <= 0 THEN [r |-> Fault("ResponseError"), store |-> store]
        ELSE [r |-> Ok(d.payload.sub),
              store |-> redis_setex(store, TokenKey(d.payload.id), ttl,
                                    d.payload.sub \o <<":">> \o PyStr(d.payload.is_active))]

\* POST /users/logout (routes/users.py). cookie_op records the call of
\* response.delete_cookie.
LogoutUser ==
    \E cookie \in Presentable, up \in BOOLEAN :
        LET l == lock_refresh_token(cookie, up)
            req(r) == Request("logout", cookie, NoToken, up, r)
        IN
        /\ last = Idle
        /\ IF cookie = NoToken THEN
               /\ last' = req(Http(403, "User is already logout"))
               /\ UNCHANGED <<now, users, nextId, issued, iat, store, loggedOut, ticks, school>>
           ELSE IF l.r.kind # "ok" THEN
               /\ last' = req(Http(500, "Internal server error"))
               /\ UNCHANGED <<now, users, nextId, issued, iat, store, loggedOut, ticks, school>>
           ELSE IF find_active_by_id(l.r.payload) = {} THEN
               /\ store' = l.store
               /\ last' = req(Http(403, "Unauthorized - invalid user"))
               /\ UNCHANGED <<now, users, nextId, issued, iat, loggedOut, ticks, school>>
           ELSE
               /\ store' = l.store
               /\ loggedOut' = loggedOut \cup {cookie}
               /\ last' = [req(Ok(NoClaims)) EXCEPT !.cookie_op = "delete"]
               /\ UNCHANGED <<now, users, nextId, issued, iat, ticks, school>>

\* require_active_user: whether the wrapper calls the route's body.
require_active_user(user_data) == user_data.is_active

\* require_admin_active testing the is_active claim alone.
require_admin_active_no_admin(user_data) == user_data.is_active

\* require_admin_active: whether the wrapper calls the route's body.
require_admin_active(user_data) == user_data.is_active /\ user_data.admin

\* PUT /users/update-active: the wrapper of require_admin_active and the
\* route's body, run with the user_data the guard has just returned.
UpdateUserActive ==
    \E name \in Names, is_active \in BOOLEAN :
        LET user_data == last.principal
            req(r) == [Request("update_active", last.cookie, last.bearer, last.up, r)
                           EXCEPT !.name = name, !.principal = user_data]
        IN
        /\ last.op = "guard"
        /\ last.kind = "ok"
        /\ IF ~require_admin_active(user_data) THEN
               /\ last' = req(Http(403, "Unauthorized"))
               /\ UNCHANGED <<now, users, nextId, issued, iat, store, loggedOut, ticks, school>>
           ELSE IF find_by_name(name) = {} THEN
               /\ last' = req(Http(404, "User not found"))
               /\ UNCHANGED <<now, users, nextId, issued, iat, store, loggedOut, ticks, school>>
           ELSE
               /\ users' = [u \in DOMAIN users |->
                               IF users[u].name = name
                               THEN [users[u] EXCEPT !.is_active = is_active]
                               ELSE users[u]]
               /\ last' = req(Ok(NoClaims))
               /\ UNCHANGED <<now, nextId, issued, iat, store, loggedOut, ticks, school>>

\* The _id MongoDB gives the user add_user inserts. ObjectId strings all have
\* the same length; the id is given the admin's id as a proper prefix so that
\* the sweep's prefix test is exercised on the longer id.
NewUserId == AdminId \o <<"b">>

\* POST /users/: the wrapper of require_admin_active and the route's body.
AddUser ==
    \E name \in Names :
        LET user_data == last.principal
            req(r) == [Request("add_user", last.cookie, last.bearer, last.up, r)
                           EXCEPT !.name = name, !.principal = user_data]
        IN
        /\ last.op = "guard"
        /\ last.kind = "ok"
        /\ IF ~require_admin_active(user_data) THEN
               /\ last' = req(Http(403, "Unauthorized"))
               /\ UNCHANGED <<now, users, nextId, issued, iat, store, loggedOut, ticks, school>>
           ELSE IF find_by_name(name) # {} THEN
               /\ last' = req(Http(409, "User already exists"))
               /\ UNCHANGED <<now, users, nextId, issued, iat, store, loggedOut, ticks, school>>
           ELSE
               /\ NewUserId \notin DOMAIN users
               /\ users' = [u \in DOMAIN users \cup {NewUserId} |->
                               IF u = NewUserId
                               THEN [name |-> name, admin |-> FALSE, is_active |-> TRUE]
                               ELSE users[u]]
               /\ last' = req([Ok(NoClaims) EXCEPT !.status = 201])
               /\ UNCHANGED <<now, nextId, issued, iat, store, loggedOut, ticks, school>>

\* PUT /users/update-admin: the wrapper of require_admin_active and the
\* route's body.
UpdateUserAdmin ==
    \E name \in Names, admin \in BOOLEAN :
        LET user_data == last.principal
            req(r) == [Request("update_admin", last.cookie, last.bearer, last.up, r)
                           EXCEPT !.name = name, !.principal = user_data]
        IN
        /\ last.op = "guard"
        /\ last.kind = "ok"
        /\ IF ~require_admin_active(user_data) THEN
               /\ last' = req(Http(403, "Unauthorized"))
               /\ UNCHANGED <<now, users, nextId, issued, iat, store, loggedOut, ticks, school>>
           ELSE IF find_by_name(name) = {} THEN
               /\ last' = req(Http(404, "User not found"))
               /\ UNCHANGED <<now, users, nextId, issued, iat, store, loggedOut, ticks, school>>
           ELSE
               /\ users' = [u \in DOMAIN users |->
                               IF users[u].name = name
                               THEN [users[u] EXCEPT !.admin = admin]
                               ELSE users[u]]
               /\ last' = req(Ok(NoClaims))
               /\ UNCHANGED <<now, nextId, issued, iat, store, loggedOut, ticks, school>>

\* GET /users/: the wrapper of require_active_user and the route's body,
\* which only reads the users collection.
GetUsers ==
    LET user_data == last.principal
        req(r) == [Request("get_users", last.cookie, last.bearer, last.up, r)
                       EXCEPT !.principal = user_data]
    IN
    /\ last.op = "guard"
    /\ last.kind = "ok"
    /\ last' = IF ~require_active_user(user_data) THEN req(Http(403, "Unauthorized"))
               ELSE req(Ok(NoClaims))
    /\ UNCHANGED <<now, users, nextId, issued, iat, store, loggedOut, ticks, school>>

\* f"names:{query_name if query_name else 'all'}"
NamesKey(query_name) == <<"names:", IF query_name = "" THEN "all" ELSE query_name>>

\* GET /enrollment/names, which needs no credentials: the list is answered
\* from the cache when the key holds a value, and otherwise read from the
\* sisu collection and cached for 3600 seconds as a JSON list.
GetNames ==
    \E query_name \in {"", "an"}, up \in BOOLEAN :
        LET req(r) == Request("get_names", NoToken, NoToken, up, r) IN
        /\ last = Idle
        /\ IF ~up THEN
               /\ last' = req(Http(500, "Internal server error"))
               /\ UNCHANGED <<now, users, nextId, issued, iat, store, loggedOut, ticks, school>>
           ELSE IF redis_get(NamesKey(query_name)) # <<>> THEN
               /\ last' = req(Ok(NoClaims))
               /\ UNCHANGED <<now, users, nextId, issued, iat, store, loggedOut, ticks, school>>
           ELSE
               /\ store' = redis_setex(store, NamesKey(query_name), 3600, <<"[", "]">>)
               /\ last' = req(Ok(NoClaims))
               /\ UNCHANGED <<now, users, nextId, issued, iat, loggedOut, ticks, school>>

(***************************************************************************)
(* The guard, step by step                                                 *)
(*                                                                         *)
(* auth_user is a plain function, which the framework runs in a worker     *)
(* thread; the thread blocks in redis_db.get until Redis returns. The      *)
(* client is built by Redis.from_url(redis_uri) without a socket timeout.  *)
(***************************************************************************)
\* The guard waiting for the reply to redis_db.get.
Pending == [kind |-> "pending", status |-> 0, detail |-> "", payload |-> NoClaims]

\* auth_user up to the call of redis_db.get in verify_refresh_token: the
\* outcome when it ends before the call, Pending when the call is made.
auth_user_until_get(cookie, bearer) ==
    IF bearer = NoToken THEN Http(403, "Not authenticated")
    ELSE IF cookie = NoToken THEN Http(401, "Token not found")
    ELSE LET d == decode_refresh_token(cookie) IN
         IF d.kind # "ok" THEN d
         ELSE IF d.payload.id = 0 THEN Http(401, "Invalid token")
         ELSE Pending

\* A protected route is requested and the guard runs up to its Redis call.
AuthUserBegin ==
    \E cookie \in Presentable, bearer \in Presentable :
        /\ last = Idle
        /\ last' = Request("guard", cookie, bearer, TRUE,
                           auth_user_until_get(cookie, bearer))
        /\ UNCHANGED <<now, users, nextId, issued, iat, store, loggedOut, ticks, school>>

\* redis_db.get returns, with the value or with an error, and the guard runs
\* to its end.
RedisGetReturns ==
    \E up \in BOOLEAN :
        LET r == Respond(auth_user(last.cookie, last.bearer, up)) IN
        /\ last.op = "guard"
        /\ last.kind = "pending"
        /\ last' = [Request("guard", last.cookie, last.bearer, up, r) EXCEPT
                        !.principal = r.payload]
        /\ UNCHANGED <<now, users, nextId, issued, iat, store, loggedOut, ticks, school>>

\* A second passes while redis_db.get has not returned.
RedisGetBlocks ==
    /\ last.op = "guard"
    /\ last.kind = "pending"
    /\ ticks < MaxTicks
    /\ ticks' = ticks + 1
    /\ now' = now + Hz
    /\ store' = Live(store, now + Hz)
    /\ UNCHANGED <<users, nextId, issued, iat, loggedOut, last, school>>

(***************************************************************************)
(* Classes (routes/turma.py) and enrollments (routes/enrollment.py)        *)
(*                                                                         *)
(* A collection is the sequence of its documents in insertion order, which *)
(* is the order find_one and update_one take their first match in. The     *)
(* routes are taken after their guard: user_data ranges over the claims    *)
(* the guard returns. A handler runs without a suspension point inside one *)
(* server process, and nothing in the code or the database (no unique      *)
(* index, no transaction) orders the calls of two server processes, so     *)
(* create_turma is taken in its two database calls.                        *)
(***************************************************************************)
TurmaNames == {"A", "B"}
Semesters == {"2024.1", "2024.2"}

\* The claims the guard returns to a route: is_active is true in every
\* issued token; admin is either.
Principals == {[is_active |-> TRUE, admin |-> a] : a \in BOOLEAN}

\* find_one and update_one take the first of the documents matching the
\* filter: the least of their indexes S, 0 when there is none.
FirstMatch(S) == IF S = {} THEN 0 ELSE CHOOSE i \in S : \A j \in S : i <= j

Reply(op, status, detail) == [op |-> op, status |-> status, detail |-> detail]

\* create_turma's and delete_turma's
\* db.turma.find_one({'name', 'semester', 'is_active': True})
find_active_turma(name, semester) ==
    FirstMatch({i \in 1..Len(turmas) :
                   /\ turmas[i].name = name
                   /\ turmas[i].semester = semester
                   /\ turmas[i].is_active})

\* POST /turma/ up to the return of find_one: the wrapper of
\* require_active_user, then 409 when an active class has the name and
\* semester; otherwise the call goes on to insert_one.
CreateTurmaFind ==
    \E w \in 1..MaxWorkers, name \in TurmaNames, semester \in Semesters,
       user_data \in Principals :
        /\ creating[w] = NoCall
        /\ Len(turmas) + Cardinality({v \in 1..MaxWorkers : creating[v] # NoCall}) < MaxTurmas
        /\ IF ~require_active_user(user_data) THEN
               /\ reply' = Reply("create_turma", 403, "Unauthorized")
               /\ UNCHANGED <<turmas, enrollments, creating>>
           ELSE IF find_active_turma(name, semester) # 0 THEN
               /\ reply' = Reply("create_turma", 409, "Class already exists for this semester")
               /\ UNCHANGED <<turmas, enrollments, creating>>
           ELSE
               /\ creating' = [creating EXCEPT ![w] = [name |-> name, semester |-> semester]]
               /\ UNCHANGED <<turmas, enrollments, reply>>
        /\ UNCHANGED <<now, users, nextId, issued, iat, store, loggedOut, last, ticks>>

\* POST /turma/ from insert_one on.
CreateTurmaInsert ==
    \E w \in 1..MaxWorkers :
        /\ creating[w] # NoCall
        /\ turmas' = Append(turmas, [name |-> creating[w].name,
                                      semester |-> creating[w].semester,
                                      is_active |-> TRUE])
        /\ creating' = [creating EXCEPT ![w] = NoCall]
        /\ reply' = Reply("create_turma", 201, "Class created successfully")
        /\ UNCHANGED <<now, users, nextId, issued, iat, store, loggedOut, last, ticks,
                       enrollments>>

\* PUT /turma/. new_name and new_semester are "" when the form leaves them
\* out. update_one changes the first document with the name and semester,
\* which is the one find_one returned; updated_at always changes.
UpdateTurma ==
    \E name \in TurmaNames, semester \in Semesters,
       new_name \in TurmaNames \cup {""}, new_semester \in Semesters \cup {""},
       user_data \in Principals :
        LET existing_turma ==
                FirstMatch({i \in 1..Len(turmas) :
                               turmas[i].name = name /\ turmas[i].semester = semester})
            to_name == IF new_name # "" THEN new_name ELSE name
            to_semester == IF new_semester # "" THEN new_semester ELSE semester
            existing_with_new ==
                {i \in 1..Len(turmas) :
                    /\ turmas[i].name = to_name
                    /\ turmas[i].semester = to_semester
                    /\ i # existing_turma}
        IN
        /\ IF ~require_active_user(user_data) THEN
               /\ reply' = Reply("update_turma", 403, "Unauthorized")
               /\ UNCHANGED turmas
           ELSE IF existing_turma = 0 THEN
               /\ reply' = Reply("update_turma", 404, "Class not found")
               /\ UNCHANGED turmas
           ELSE IF (new_name # "" \/ new_semester # "") /\ existing_with_new # {} THEN
               /\ reply' = Reply("update_turma", 409,
                                 "Class already exists with this name and semester")
               /\ UNCHANGED turmas
           ELSE
               /\ turmas' = [turmas EXCEPT ![existing_turma] =
                                 [@ EXCEPT !.name = to_name, !.semester = to_semester]]
               /\ reply' = Reply("update_turma", 200, "Class updated successfully")
        /\ UNCHANGED <<now, users, nextId, issued, iat, store, loggedOut, last, ticks,
                       enrollments, creating>>

\* DELETE /turma/. update_one takes the first document with the name and
\* semester, active or not; when that one is already inactive nothing is
\* modified and the answer is 500.
DeleteTurma ==
    \E name \in TurmaNames, semester \in Semesters, user_data \in Principals :
        LET first == FirstMatch({i \in 1..Len(turmas) :
                                    turmas[i].name = name /\ turmas[i].semester = semester})
        IN
        /\ IF ~require_admin_active(user_data) THEN
               /\ reply' = Reply("delete_turma", 403, "Unauthorized")
               /\ UNCHANGED turmas
           ELSE IF find_active_turma(name, semester) = 0 THEN
               /\ reply' = Reply("delete_turma", 404, "Class not found")
               /\ UNCHANGED turmas
           ELSE IF ~turmas[first].is_active THEN
               /\ reply' = Reply("delete_turma", 500, "Failed to delete class")
               /\ UNCHANGED turmas
           ELSE
               /\ turmas' = [turmas EXCEPT ![first] = [@ EXCEPT !.is_active = FALSE]]
               /\ reply' = Reply("delete_turma", 200, "Class deleted successfully")
        /\ UNCHANGED <<now, users, nextId, issued, iat, store, loggedOut, last, ticks,
                       enrollments, creating>>

\* config.activeSemester as POST /config/ has set it; it does not change here.
activeSemester == "2024.1"

\* get_active_turmas: the {name, semester} of the active classes of the
\* active semester.
get_active_turmas ==
    {[name |-> turmas[i].name, semester |-> turmas[i].semester] :
        i \in {j \in 1..Len(turmas) :
                  turmas[j].semester = activeSemester /\ turmas[j].is_active}}

\* The (INSCRITO, CPF_MASKED, CURSO) of the people in the sisu collection,
\* and one of a person who is not in it.
Students == {<<"ana", "111222", "CC">>, <<"ana", "111222", "EC">>}
Stranger == <<"zoe", "333444", "CC">>

\* OPCOES of the entry info, and a choice that is not among them.
Choices == {"Cursar disciplina"}

\* db.enrollment.find_one({'INSCRITO', 'CPF_MASKED', 'CURSO', 'SEMESTRE',
\* 'IS_ACTIVE': True}), the key of the first three being who.
find_active_enrollment(who, semester) ==
    FirstMatch({i \in 1..Len(enrollments) :
                   /\ enrollments[i].who = who
                   /\ enrollments[i].SEMESTRE = semester
                   /\ enrollments[i].IS_ACTIVE})

\* POST /enrollment/, which needs no credentials.
CreateEnrollment ==
    \E who \in Students \cup {Stranger}, choice \in Choices \cup {"x"},
       turma \in TurmaNames, semester \in Semesters :
        /\ Len(enrollments) < MaxEnrollments
        /\ IF who \notin Students THEN
               /\ reply' = Reply("create_enrollment", 404,
                                 "No entry info found for this name, CPF and course")
               /\ UNCHANGED enrollments
           ELSE IF choice \notin Choices THEN
               /\ reply' = Reply("create_enrollment", 400, "Invalid choice")
               /\ UNCHANGED enrollments
           ELSE IF [name |-> turma, semester |-> semester] \notin get_active_turmas THEN
               /\ reply' = Reply("create_enrollment", 404, "Class not found for this semester")
               /\ UNCHANGED enrollments
           ELSE IF find_active_enrollment(who, semester) # 0 THEN
               /\ reply' = Reply("create_enrollment", 400, "Enrollment already exists")
               /\ UNCHANGED enrollments
           ELSE
               /\ enrollments' = Append(enrollments,
                                        [who |-> who, ESCOLHA |-> choice, TURMA |-> turma,
                                         SEMESTRE |-> semester, IS_ACTIVE |-> TRUE])
               /\ reply' = Reply("create_enrollment", 201, "Enrollment created successfully")
        /\ UNCHANGED <<now, users, nextId, issued, iat, store, loggedOut, last, ticks,
                       turmas, creating>>

\* PUT /enrollment/. new_semestre, new_turma and new_choice are "" when the
\* form leaves them out (None). An HTTPException raised in the body is caught
\* by "except Exception" and answered as a 500. When both new_semestre and
\* new_choice are left out, update_one is given an empty $set, which the
\* database either refuses or applies as no change.
UpdateEnrollment ==
    \E who \in Students, semester \in Semesters,
       new_semestre \in Semesters \cup {""}, new_turma \in TurmaNames \cup {""},
       new_choice \in Choices \cup {"", "x"}, user_data \in Principals,
       empty_set_status \in {200, 500} :
        LET found == find_active_enrollment(who, semester) IN
        /\ IF ~require_active_user(user_data) THEN
               /\ reply' = Reply("update_enrollment", 403, "Unauthorized")
               /\ UNCHANGED enrollments
           ELSE IF \/ found = 0
                   \/ /\ new_turma # "" /\ new_semestre # ""
                      /\ [name |-> new_turma, semester |-> new_semestre] \notin get_active_turmas
                   \/ new_choice # "" /\ new_choice \notin Choices
           THEN
               /\ reply' = Reply("update_enrollment", 500, "Internal server error")
               /\ UNCHANGED enrollments
           ELSE IF new_semestre = "" /\ new_choice = "" THEN
               /\ reply' = Reply("update_enrollment", empty_set_status,
                                 IF empty_set_status = 200
                                 THEN "Enrollment updated successfully"
                                 ELSE "Internal server error")
               /\ UNCHANGED enrollments
           ELSE
               /\ enrollments' =
                      [enrollments EXCEPT ![found] =
                          [@ EXCEPT
                              !.SEMESTRE = IF new_semestre # "" THEN new_semestre ELSE @,
                              !.TURMA = IF new_semestre # "" THEN new_turma ELSE @,
                              !.ESCOLHA = IF new_choice # "" THEN new_choice ELSE @]]
               /\ reply' = Reply("update_enrollment", 200, "Enrollment updated successfully")
        /\ UNCHANGED <<now, users, nextId, issued, iat, store, loggedOut, last, ticks,
                       turmas, creating>>

\* DELETE /enrollment/.
DeleteEnrollment ==
    \E who \in Students, semester \in Semesters, user_data \in Principals :
        LET found == find_active_enrollment(who, semester) IN
        /\ IF ~require_admin_active(user_data) THEN
               /\ reply' = Reply("delete_enrollment", 403, "Unauthorized")
               /\ UNCHANGED enrollments
           ELSE IF found = 0 THEN
               /\ reply' = Reply("delete_enrollment", 500, "Internal server error")
               /\ UNCHANGED enrollments
           ELSE
               /\ enrollments' = [enrollments EXCEPT ![found] = [@ EXCEPT !.IS_ACTIVE = FALSE]]
               /\ reply' = Reply("delete_enrollment", 200, "Enrollment deleted successfully")
        /\ UNCHANGED <<now, users, nextId, issued, iat, store, loggedOut, last, ticks,
                       turmas, creating>>

(***************************************************************************)
(* Properties                                                              *)
(***************************************************************************)
\* A correctly signed, unexpired token of the session kind / of the
\* authorization kind, stated from the token's fields.
SessionValid(t) ==
    t.form = "jwt" /\ t.sig = "ok" /\ now < t.claims.exp /\ t.claims.refresh

AuthorizationValid(t) ==
    t.form = "jwt" /\ t.sig = "ok" /\ now < t.claims.exp /\ ~t.claims.refresh

Revoked(t) == TokenKey(t.claims.id) \in DOMAIN store

C2_NeverResurrected ==
    /\ (last.op = "guard" /\ last.cookie \in loggedOut /\ now < last.cookie.claims.exp) =>
           last.kind # "ok"
    /\ (last.op = "login" /\ last.status = 201) =>
           \A t \in loggedOut :
               now < t.claims.exp =>
                   \A bearer \in Presentable : auth_user(t, bearer, TRUE).kind # "ok"

\* C3: right after a successful login, whatever the store held, the guard
\* admits the returned session token as cookie with the returned
\* authorization token as bearer (Redis answering the lookup).
C3_NewPairAdmitted ==
    (last.op = "login" /\ last.status = 201) =>
        auth_user(last.set_cookie, last.token, TRUE) = Ok(last.token.claims)

\* C3 witness: the guard has admitted the pair of the latest login, made
\* after an earlier session of the same subject was logged out.
C3_Witness ==
    /\ last.op = "guard"
    /\ last.kind = "ok"
    /\ loggedOut # {}
    /\ last.bearer.claims.id = nextId - 1
    /\ last.cookie.claims.id = nextId
    /\ last.cookie \notin loggedOut

\* C4: the guard admits exactly when the cookie is present and is a valid
\* unrevoked session token and the bearer is present and is a valid
\* authorization token (Redis answering the lookup); the principal is then
\* the claims of the authorization token; without a cookie nothing is admitted.
C4_AdmitsIff ==
    last.op = "guard" =>
        LET conds ==
                /\ last.cookie # NoToken
                /\ SessionValid(last.cookie)
                /\ ~Revoked(last.cookie)
                /\ last.bearer # NoToken
                /\ AuthorizationValid(last.bearer)
        IN
        /\ last.kind = "ok" => conds /\ last.principal = last.bearer.claims
        /\ (conds /\ last.up) => last.kind = "ok"
        /\ last.cookie = NoToken => last.kind # "ok"

\* C4 witness: a valid authorization token presented without any session
\* cookie has been rejected.
C4_Witness ==
    /\ last.op = "guard"
    /\ last.cookie = NoToken
    /\ AuthorizationValid(last.bearer)
    /\ last.status = 401

\* C5: decode_access_token refuses every session token and
\* decode_refresh_token every authorization token; the guard never admits an
\* authorization token as cookie or a session token as bearer; logout and
\* refresh never succeed with an authorization token as the cookie.
C5_KindsNotInterchangeable ==
    /\ \A t \in issued :
          /\ t.claims.refresh => decode_access_token(t).kind # "ok"
          /\ ~t.claims.refresh => decode_refresh_token(t).kind # "ok"
    /\ (last.op = "guard" /\ last.kind = "ok") =>
          /\ ~(last.cookie \in issued /\ ~last.cookie.claims.refresh)
          /\ ~(last.bearer \in issued /\ last.bearer.claims.refresh)
    /\ (last.op \in {"logout", "refresh"} /\ last.cookie \in issued
            /\ ~last.cookie.claims.refresh) =>
          /\ last.status # 200
          /\ last.token = NoToken
          /\ last.cookie_op = "none"
          /\ ~Revoked(last.cookie)

\* C5 witness: logout has been asked with an unexpired authorization token
\* as the session cookie, Redis being reachable.
C5_Witness ==
    /\ last.op = "logout"
    /\ AuthorizationValid(last.cookie)
    /\ last.up
    /\ last.status = 500

C7_RoundTrip ==
    (last.op = "login" /\ last.status = 201) =>
        \A u \in find_active_by_name(last.name) :
            \A d \in {decode_access_token(last.token),
                      decode_refresh_token(last.set_cookie)} :
                /\ d.kind = "ok"
                /\ d.payload.sub = u
                /\ d.payload.admin = users[u].admin
                /\ d.payload.is_active = users[u].is_active
                /\ d.payload.name = users[u].name

\* C7 witness: a login has returned its pair of tokens.
C7_Witness ==
    /\ last.op = "login"
    /\ last.status = 201
    /\ find_active_by_name(last.name) # {}

C9_ExpiredLogoutSucceeds ==
    (last.op = "logout" /\ last.up /\ last.cookie \in issued
        /\ last.cookie.claims.refresh /\ last.cookie.claims.exp - now <= 0) =>
        last.status = 200 /\ ~Revoked(last.cookie)

\* C10: when Redis is unreachable at the guard's marker lookup, the request
\* ends in the rejection a revoked token gets (401 "Token locked").
C10_FailClosed ==
    (last.op = "guard" /\ ~last.up /\ last.bearer # NoToken
        /\ SessionValid(last.cookie)) =>
        last.status = 401 /\ last.detail = "Token locked"

\* C11: a login whose name and password were verified (it is not answered
\* 401) returns the authorization token and sets the session token, whether
\* or not Redis answers the cleanup sweep.
C11_CleanupBestEffort ==
    (last.op = "login" /\ last.status # 401) =>
        /\ last.status = 201
        /\ last.token # NoToken
        /\ last.set_cookie # NoToken

\* C12: a refresh request presenting a session token whose logout succeeded
\* and whose marker is in the store is refused and issues no authorization
\* token (Redis being reachable).
C12_RefreshRefusesRevoked ==
    (last.op = "refresh" /\ last.up /\ last.cookie \in loggedOut
        /\ Revoked(last.cookie)) =>
        last.status # 200 /\ last.token = NoToken

\* C13: a step that answers a refresh request leaves the store as it was,
\* sets or clears no cookie, adds no session token to the issued ones and
\* keeps every issued token; the verdict of the revocation check on every
\* issued token is the same after the step as before it.
C13_RefreshFrame ==
    [][(last.op = "idle" /\ last'.op = "refresh") =>
          /\ store' = store
          /\ last'.set_cookie = NoToken
          /\ last'.cookie_op = "none"
          /\ issued \subseteq issued'
          /\ \A t \in issued' \ issued : ~t.claims.refresh /\ t = last'.token
          /\ loggedOut' = loggedOut
          /\ \A t \in issued :
                verify_refresh_token(t, TRUE)' = verify_refresh_token(t, TRUE)
      ]_vars

\* C13 witness: a refresh presenting a valid session token has been answered
\* with a new authorization token.
C13_Witness ==
    /\ last.op = "refresh"
    /\ last.status = 200
    /\ SessionValid(last.cookie)
    /\ last.token \in issued
    /\ last.token.claims.id = nextId

\* C14: any two requests the guard rejects get the same response: when the
\* guard has rejected a request, every request it would reject in this state,
\* whatever its cookie and bearer and whether or not Redis answers, gets the
\* status and the detail of that response.
C14_UniformRejection ==
    (last.op = "guard" /\ last.kind # "ok") =>
        \A cookie \in Presentable, bearer \in Presentable, up \in BOOLEAN :
            LET r == Respond(auth_user(cookie, bearer, up)) IN
            r.kind # "ok" => r.status = last.status /\ r.detail = last.detail

\* C15: every marker in the store lapses at an instant still to come (one
\* whose TTL has elapsed is absent), and it does not lapse before the
\* expires_at of the session token it names, so that by the time it is gone
\* the token has expired.
C15_SelfExpiring ==
    /\ \A k \in DOMAIN store : store[k].expire_at > now
    /\ \A t \in issued :
          Revoked(t) => store[TokenKey(t.claims.id)].expire_at >= t.claims.exp

\* C16: once a logout of a session token and a login of the same subject have
\* both completed, in either order, the token's marker is in the store and
\* the guard rejects the token, until the token's expires_at.
C16_NoLostUpdate ==
    \A t \in loggedOut :
        (/\ last.op \in {"login", "logout"}
         /\ last.kind = "ok"
         /\ now < t.claims.exp
         /\ \E s \in issued : /\ s.claims.refresh
                              /\ s.claims.sub = t.claims.sub
                              /\ s.claims.id > t.claims.id) =>
            /\ Revoked(t)
            /\ \A bearer \in issued : auth_user(t, bearer, TRUE).kind # "ok"

\* C17: every invocation of the guard that waits for Redis eventually ends
\* (admitted or rejected), also when Redis never returns.
C17_BoundedResponse ==
    (last.op = "guard" /\ last.kind = "pending") ~> (last.kind # "pending")

\* Tokens not signed with the secret whose payload has no sub and no refresh
\* claim, one expired and one not.
Forged ==
    {[form |-> "jwt", sig |-> "bad", claims |-> [exp |-> e]] : e \in {0, now + Hz}}

\* C18: a token whose signature does not verify is refused as invalid
\* (401 "Invalid token") by decode_access_token and by decode_refresh_token,
\* whatever its payload: expired or not, of either kind, with or without the
\* sub claim; it is never reported expired and never decoded.
C18_BadSignature ==
    \A t \in {Tamper(i) : i \in issued} \cup Forged :
        /\ decode_access_token(t) = Http(401, "Invalid token")
        /\ decode_refresh_token(t) = Http(401, "Invalid token")

\* C18 witness: the guard has refused as invalid a tampered copy of an
\* authorization token that has also expired, presented with a valid session
\* token.
C18_Witness ==
    /\ last.op = "guard"
    /\ SessionValid(last.cookie)
    /\ last.bearer \in {Tamper(i) : i \in issued}
    /\ last.bearer.claims.exp <= now
    /\ last.up
    /\ last.status = 401
    /\ last.detail = "Invalid token"

\* C19: every marker in the store is keyed by the id of an issued session
\* token, carries that token's subject:is_active, and lapses exactly at that
\* token's expires_at (so that no logout, repeated or not, moves the instant).
C19_MarkerLifetime ==
    \A k \in DOMAIN store :
        \E t \in issued :
            /\ t.claims.refresh
            /\ k = TokenKey(t.claims.id)
            /\ store[k].value = t.claims.sub \o <<":">> \o PyStr(t.claims.is_active)
            /\ store[k].expire_at = t.claims.exp

\* C20: a cookie that fails to decode never makes the guard, the refresh
\* route or the logout route answer an internal server error; the request is
\* rejected as unauthorized (401), Redis being reachable.
C20_DecodeNeverFaults ==
    (/\ last.op \in {"guard", "refresh", "logout"}
     /\ last.up
     /\ last.cookie # NoToken
     /\ last.bearer # NoToken \/ last.op # "guard"
     /\ decode_refresh_token(last.cookie).kind # "ok") =>
        last.status = 401

\* C21: the guard reports the first failing step in the order cookie present,
\* session decode, revocation lookup, bearer present, authorization decode:
\* a request whose session cookie is invalid or revoked and which carries no
\* bearer credential is rejected for the session token (the outcome of
\* verify_refresh_token), not for the missing bearer.
C21_FirstFailingStep ==
    (/\ last.op = "guard"
     /\ last.up
     /\ last.cookie # NoToken
     /\ last.bearer = NoToken
     /\ verify_refresh_token(last.cookie, TRUE).kind # "ok") =>
        /\ last.status = verify_refresh_token(last.cookie, TRUE).status
        /\ last.detail = verify_refresh_token(last.cookie, TRUE).detail

\* C22: when a login has issued its pair, the store holds no marker whose
\* value references the subject of the pair ("<subject>:..."), whatever it
\* held before.
C22_SweepPostcondition ==
    (last.op = "login" /\ last.status = 201) =>
        \A k \in DOMAIN store :
            ~StartsWith(store[k].value, last.token.claims.sub \o <<":">>)

\* C22 witness: a login has issued a pair while a session token of the same
\* subject was logged out and unexpired, no time having passed since the
\* logout wrote its marker; the marker is gone.
C22_Witness ==
    /\ last.op = "login"
    /\ last.status = 201
    /\ ticks = 0
    /\ \E t \in loggedOut :
           /\ t.claims.sub = last.token.claims.sub
           /\ now < t.claims.exp
           /\ ~Revoked(t)

\* C25: a login that fails (no user of that name, the user inactive, or a
\* bad password) is answered 401, returns no token, sets no cookie and leaves
\* the store, the issued tokens and the directory as they were.
C25_FailedLoginNoEffect ==
    [][(/\ last.op = "idle"
        /\ last'.op = "login"
        /\ \/ \A u \in DOMAIN users : users[u].name = last'.name => ~users[u].is_active
           \/ last'.detail = "Username or password not valid") =>
            /\ last'.status = 401
            /\ last'.token = NoToken
            /\ last'.set_cookie = NoToken
            /\ last'.cookie_op = "none"
            /\ store' = store
            /\ issued' = issued
            /\ nextId' = nextId
            /\ users' = users]_vars

\* C25 witness: a login for the name of a deactivated user has been refused
\* while the store held a marker.
C25_Witness ==
    /\ last.op = "login"
    /\ last.status = 401
    /\ \E u \in DOMAIN users : users[u].name = last.name /\ ~users[u].is_active
    /\ store # <<>>

\* C26: every token ever issued carries is_active = true; a token returned
\* by login or refresh names a user who is active in the directory and carries
\* the directory's admin flag; a login or refresh for a subject who is
\* inactive returns no token, whatever session token it presents.
C26_IssuedForActiveOnly ==
    /\ \A t \in issued : t.claims.is_active
    /\ (last.op \in {"login", "refresh"} /\ last.token # NoToken) =>
           /\ last.token.claims.sub \in DOMAIN users
           /\ users[last.token.claims.sub].is_active
           /\ last.token.claims.admin = users[last.token.claims.sub].admin
           /\ last.op = "refresh" => last.token.claims.sub = last.cookie.claims.sub
           /\ last.op = "login" =>
                  /\ users[last.token.claims.sub].name = last.name
                  /\ last.set_cookie.claims.sub = last.token.claims.sub
                  /\ last.set_cookie.claims.admin = last.token.claims.admin
    /\ (/\ last.op = "refresh"
        /\ last.cookie \in issued
        /\ ~users[last.cookie.claims.sub].is_active) => last.token = NoToken
    /\ (/\ last.op = "login"
        /\ \A u \in DOMAIN users : users[u].name = last.name => ~users[u].is_active) =>
           last.token = NoToken /\ last.set_cookie = NoToken

\* C26 witness: a refresh presenting a valid session token that is not
\* revoked has been refused because its subject is inactive.
C26_Witness ==
    /\ last.op = "refresh"
    /\ last.up
    /\ SessionValid(last.cookie)
    /\ ~Revoked(last.cookie)
    /\ ~users[last.cookie.claims.sub].is_active
    /\ last.status = 403
    /\ last.token = NoToken

\* C28: a logout that reports failure (no cookie, a token that does not
\* decode, a user who is missing or inactive) leaves the store as it was.
C28_FailedLogoutFrame ==
    [][(last.op = "idle" /\ last'.op = "logout" /\ last'.status # 200) =>
            store' = store]_vars

\* C23: the guard admits a request only when the session token of the cookie
\* and the authorization token of the bearer name the same subject.
C23_SameSubject ==
    (last.op = "guard" /\ last.kind = "ok") =>
        last.cookie.claims.sub = last.bearer.claims.sub

\* The markers lock_refresh_token writes for subject id: "<id>:True" and
\* "<id>:False".
MarkerValues(id) == {id \o <<":">> \o PyStr(b) : b \in BOOLEAN}

\* C24: a login for subject S changes only S's markers: every entry whose
\* key is not a token:* key, and every marker whose value is not one of S's,
\* is in the store after the login with the same value and expiry.
C24_SweepFrame ==
    [][(last.op = "idle" /\ last'.op = "login") =>
            \A k \in DOMAIN store :
                (\/ k[1] # "token:"
                 \/ \A u \in DOMAIN users :
                        users[u].name = last'.name => store[k].value \notin MarkerValues(u)) =>
                    k \in DOMAIN store' /\ store'[k] = store[k]]_vars

\* C24 witness: a login of the admin has issued its pair while the store
\* holds a names cache entry and the marker of a session token of the user
\* whose id extends the admin's id.
C24_Witness ==
    /\ last.op = "login"
    /\ last.name = "admin"
    /\ last.status = 201
    /\ \E q \in {"", "an"} : NamesKey(q) \in DOMAIN store
    /\ \E t \in loggedOut :
           /\ t.claims.sub = NewUserId
           /\ StartsWith(NewUserId, last.token.claims.sub)
           /\ Revoked(t)
           /\ store[TokenKey(t.claims.id)].value \in MarkerValues(NewUserId)

\* C27: the body of a route wrapped by require_admin_active runs only when
\* the guard admitted the request and the claims it returned have is_active
\* and admin true, the body of one wrapped by require_active_user only when
\* they have is_active true; otherwise the answer is 403 and the directory
\* and the store are unchanged.
C27_RoleGate ==
    [][(last'.op \in {"add_user", "update_admin", "update_active", "get_users"}
            /\ last.op # last'.op) =>
            /\ last.op = "guard"
            /\ last.kind = "ok"
            /\ last.principal = last.bearer.claims
            /\ LET allowed ==
                       /\ last.principal.is_active = TRUE
                       /\ last'.op # "get_users" => last.principal.admin = TRUE
               IN  ~allowed =>
                       /\ last'.status = 403
                       /\ last'.detail = "Unauthorized"
                       /\ users' = users
                       /\ store' = store]_vars

\* C27 witness: an active user who is not an admin, admitted by the guard,
\* has asked to change a user's admin flag and has been answered 403.
C27_Witness ==
    /\ last.op = "update_admin"
    /\ last.principal.is_active
    /\ ~last.principal.admin
    /\ last.status = 403
    /\ AuthorizationValid(last.bearer)
    /\ SessionValid(last.cookie)

\* C29: at most one active class per (name, semester), whatever sequence of
\* create_turma, update_turma and delete_turma was answered, two create_turma
\* calls with both find_one before either insert_one included.
C29_ActiveTurmaUnique ==
    \A i, j \in 1..Len(turmas) :
        (/\ turmas[i].is_active
         /\ turmas[j].is_active
         /\ turmas[i].name = turmas[j].name
         /\ turmas[i].semester = turmas[j].semester) => i = j

\* C30: at most one active enrollment per (INSCRITO, CPF_MASKED, CURSO,
\* SEMESTRE), whatever sequence of create_enrollment, update_enrollment (a
\* change of semester included) and delete_enrollment was answered.
C30_ActiveEnrollmentUnique ==
    \A i, j \in 1..Len(enrollments) :
        (/\ enrollments[i].IS_ACTIVE
         /\ enrollments[j].IS_ACTIVE
         /\ enrollments[i].who = enrollments[j].who
         /\ enrollments[i].SEMESTRE = enrollments[j].SEMESTRE) => i = j

Next ==
    \/ Tick
    \/ add_process_time_header
    \/ AuthUser
    \/ LoginUser
    \/ RefreshLoginUser
    \/ LogoutUser
    \/ UpdateUserActive

Spec == Init /\ [][Next]_vars

\* The guard taken step by step, with logins to mint the tokens presented.
\* The server returns a response that is ready; nothing makes Redis answer.
GuardNext ==
    \/ LoginUser
    \/ add_process_time_header
    \/ AuthUserBegin
    \/ RedisGetReturns
    \/ RedisGetBlocks

GuardSpec == Init /\ [][GuardNext]_vars /\ WF_vars(add_process_time_header)

\* Logins, logouts and the deactivation of users, with no time passing.
LoginNext ==
    \/ LoginUser
    \/ LogoutUser
    \/ AuthUser
    \/ UpdateUserActive
    \/ add_process_time_header

LoginSpec == Init /\ [][LoginNext]_vars

\* The directory with a second user: the admin registers users and changes
\* their flags, and users log in and call protected routes. No time passes.
TeamNext ==
    \/ LoginUser
    \/ AuthUser
    \/ add_process_time_header
    \/ AddUser
    \/ UpdateUserAdmin
    \/ UpdateUserActive
    \/ GetUsers

TeamSpec == Init /\ [][TeamNext]_vars

\* The state after the admin has registered the user bob.
InitTeam ==
    /\ now = 0
    /\ users = [u \in {AdminId, NewUserId} |->
                   IF u = AdminId
                   THEN [name |-> "admin", admin |-> TRUE, is_active |-> TRUE]
                   ELSE [name |-> "bob", admin |-> FALSE, is_active |-> TRUE]]
    /\ nextId = 0
    /\ issued = {}
    /\ iat = <<>>
    /\ store = <<>>
    /\ loggedOut = {}
    /\ last = Idle
    /\ ticks = 0
    /\ SchoolInit

\* Two users logging in and out while the names cache is filled.
SweepNext ==
    \/ LoginUser
    \/ LogoutUser
    \/ GetNames
    \/ add_process_time_header

SweepSpec == InitTeam /\ [][SweepNext]_vars

\* The classes routes, create_turma being answered by up to MaxWorkers
\* server processes at a time.
TurmaNext ==
    \/ CreateTurmaFind
    \/ CreateTurmaInsert
    \/ UpdateTurma
    \/ DeleteTurma

TurmaSpec == Init /\ [][TurmaNext]_vars

\* The state after class A was created in the active semester.
InitEnrollment ==
    /\ now = 0
    /\ users = [u \in UserIds |-> [name |-> "admin", admin |-> TRUE, is_active |-> TRUE]]
    /\ nextId = 0
    /\ issued = {}
    /\ iat = <<>>
    /\ store = <<>>
    /\ loggedOut = {}
    /\ last = Idle
    /\ ticks = 0
    /\ turmas = <<[name |-> "A", semester |-> activeSemester, is_active |-> TRUE]>>
    /\ enrollments = <<>>
    /\ creating = [w \in 1..MaxWorkers |-> NoCall]
    /\ reply = Reply("create_turma", 201, "Class created successfully")

\* The enrollment routes, one request at a time.
EnrollmentNext ==
    \/ CreateEnrollment
    \/ UpdateEnrollment
    \/ DeleteEnrollment

EnrollmentSpec == InitEnrollment /\ [][EnrollmentNext]_vars
====
